---- MODULE Spec2Model ----
(***************************************************************************)
(* Company data synchronisation: the sync orchestrator (SyncService), the  *)
(* sync routes that drive it, and the single aiosqlite connection they     *)
(* share.                                                                  *)
(*                                                                         *)
(* Coroutines run on one asyncio event loop.  A coroutine runs without     *)
(* interruption from one suspending await to the next, so every action     *)
(* below is "the awaited operation completes, and the code runs on until   *)
(* the next suspending await".  Awaits that never suspend                  *)
(* (get_sync_service, get_db_connection on an initialised pool) do not     *)
(* split an action.  A database statement takes effect when its await      *)
(* completes.  _create_sync_log and _update_sync_log (one statement and    *)
(* its commit) are one step each; the statements of a batch transaction    *)
(* (BEGIN, the writes, the commit) are steps of their own.                 *)
(*                                                                         *)
(* The connection is the single aiosqlite connection of DatabaseManager:   *)
(* whatever is written through it is read back through it at once, and     *)
(* any commit makes all of it durable.                                     *)
(*                                                                         *)
(* Wall-clock values (start_time, end_time, duration_ms, last_sync_at) are *)
(* abstracted: end_time and duration_ms are NULL or Now, last_sync_at is   *)
(* the identity of the batch transaction that wrote the row.               *)
(*                                                                         *)
(* Two functions are also specified on their own, over all their inputs:   *)
(* APIClient._request (RequestSpec: one call, the server's responses and   *)
(* the retry settings drawn in RequestInit) and SyncService._needs_update  *)
(* (NeedsUpdateSpec: the two timestamps drawn in NeedsUpdateInit).         *)
(* APIClient.get_all_companies is specified on its own as well             *)
(* (PagesSpec: one call, its page fetches as concurrent tasks behind the   *)
(* semaphore).  PollSpec is the orchestrator together with an observer     *)
(* that makes one GET /sync/progress or GET /sync/status request.          *)
(* ProgressSpec is the orchestrator over a source whose reported total may *)
(* differ from the number of records it serves.                            *)
(***************************************************************************)
EXTENDS Integers, Sequences, FiniteSets, TLC

\* ---------------------------------------------------------------- bounds
MaxCalls   == 2     \* POST /sync requests issued in one behaviour
MaxCancels == 1     \* POST /sync/cancel requests issued in one behaviour
MaxFaults  == 1     \* database statements that raise for an external reason
BatchSize  == 2     \* stands for batch_size (100 in perform_sync)
MaxRetryAttempts == 3   \* largest settings.sync_retry_attempts drawn
MaxRetryDelay    == 2   \* largest settings.sync_retry_delay drawn
MaxTime    == 2     \* largest instant of a timestamp drawn for _needs_update
MaxPages   == 3     \* largest number of pages the source reports
MaxConcurrent == 3  \* largest settings.external_api_max_concurrent drawn
MaxSkew    == 1     \* largest difference of the reported total from the records

\* ------------------------------------------------------------- constants
NULL == -1          \* SQL NULL / Python None
EMPTY == -2         \* the empty string
BAD  == -3          \* a string datetime.fromisoformat rejects
TZ   == 10          \* a timestamp string TZ + t carries a UTC offset
Now  == 1           \* some value of datetime.now() / a computed duration

Ids == 1..3         \* company identifiers of the external source

VARIABLES
    states,         \* heap of SyncState objects, indexed by object identity
    sync_state,     \* models.sync._sync_state: the object the global names
    sync_logs,      \* table sync_logs as seen through the connection
    companies,      \* table companies as seen through the connection
    committed,      \* table companies as last committed
    in_txn,         \* the connection has an open transaction
    call,           \* the POST /sync requests
    task,           \* the background tasks created by accepted requests
    cancel,         \* the POST /sync/cancel requests
    source,         \* the records the external API serves
    reported,       \* the total the external API reports with a page
    faults,         \* database faults raised so far
    failed_txns,    \* history: batch transactions that raised
    request,        \* one call of APIClient._request
    needs,          \* one call of SyncService._needs_update
    pages,          \* one call of APIClient.get_all_companies
    poll            \* the GET /sync/progress and GET /sync/status requests

vars == <<states, sync_state, sync_logs, companies, committed, in_txn,
          call, task, cancel, source, reported, faults, failed_txns, request,
          needs, pages, poll>>

Calls   == 1..MaxCalls
Cancels == 1..MaxCancels

Terminal == {"completed", "failed", "cancelled"}

\* ------------------------------------------------------------ data model

\* models/sync.py SyncState(): the field defaults
SyncState ==
    [is_running |-> FALSE, current_sync_id |-> NULL, current_page |-> 0,
     total_pages |-> 0, processed_records |-> 0, total_records |-> 0]

\* models.sync.get_sync_state
get_sync_state == states[sync_state]

\* A record of the external source: id, updateTime (NULL when absent) and
\* whether ExternalCompany.to_internal succeeds on it.
ExternalCompany(id, ut, ok) == [id |-> id, update_time |-> ut, valid |-> ok]

Sources ==
    { <<>>,
      <<ExternalCompany(1, 1, TRUE)>>,
      <<ExternalCompany(1, 1, TRUE), ExternalCompany(1, 1, TRUE)>>,
      <<ExternalCompany(1, 2, TRUE), ExternalCompany(2, NULL, TRUE),
        ExternalCompany(2, 1, FALSE)>>,
      <<ExternalCompany(2, 1, TRUE), ExternalCompany(1, NULL, TRUE),
        ExternalCompany(2, 1, TRUE)>>,
      <<ExternalCompany(1, 3, TRUE), ExternalCompany(1, 2, TRUE)>>,
      <<ExternalCompany(2, 1, FALSE), ExternalCompany(1, 2, TRUE),
        ExternalCompany(3, 1, TRUE)>> }

\* The companies table maps an id to its row: update_time, last_sync_at,
\* whether a row of that id is there, and how many rows of that id there are.
NoRow ==
    [update_time |-> NULL, last_sync_at |-> <<>>, present |-> FALSE,
     rows |-> 0]

Row(ut, stamp) ==
    [update_time |-> ut, last_sync_at |-> stamp, present |-> TRUE, rows |-> 1]

\* the companies table of a database file left by an earlier process
InitStores ==
    { [i \in Ids |-> NoRow],
      [i \in Ids |-> IF i = 1 THEN Row(1, <<0, 0, "ins">>) ELSE NoRow] }

\* ---------------------------------------------------------- the connection

\* sqlite3 opens a transaction before INSERT/UPDATE when none is open;
\* conn.commit() makes everything written through the connection durable.

\* SyncService._create_sync_log: the INSERT INTO sync_logs statement
InsertSyncLog(logs) ==
    Append(logs, [status |-> "running", total_records |-> 0,
                  success_records |-> 0, failed_records |-> 0,
                  error_message |-> "NULL", end_time |-> NULL,
                  duration_ms |-> NULL])

\* SyncService._update_sync_log: the UPDATE statement sets every column from
\* the SyncLogUpdate, whose unset fields are None
SyncLogUpdate(status, total, success, failed, error, duration) ==
    [status |-> status, total_records |-> total, success_records |-> success,
     failed_records |-> failed, error_message |-> error, end_time |-> Now,
     duration_ms |-> duration]

UpdateSyncLog(logs, id, update) ==
    IF id \in DOMAIN logs THEN [logs EXCEPT ![id] = update] ELSE logs

\* ------------------------------------------------------------------ Init

IdleCall   == [pc |-> "idle", id |-> NULL]
IdleCancel == [pc |-> "idle", state |-> 0, id |-> NULL]
IdleTask ==
    [pc |-> "none", state |-> 0, e |-> "NULL",
     total_records |-> 0, external_companies |-> <<>>,
     existing_by_id |-> [i \in Ids |-> NoRow],
     i |-> 0, to_insert |-> <<>>, to_update |-> <<>>, k |-> 0,
     batch_success |-> 0, batch_failed |-> 0,
     success_count |-> 0, failed_count |-> 0]

\* What the server answers to one attempt of _request: an HTTP status and a
\* body that is JSON or not.  Status 0 stands for no response at all
\* (httpx.RequestError).
Response(status, json) == [status |-> status, json |-> json]

NoResponse == Response(NULL, FALSE)

\* utils/exceptions.py APIException: status_code is None unless given
APIException(status_code) ==
    [type |-> "APIException", status_code |-> status_code]

NoException == [type |-> "None", status_code |-> NULL]

\* no call of _request in progress
IdleRequest ==
    [pc |-> "idle", retry_attempts |-> 0, retry_delay |-> 0,
     responses |-> <<>>, attempt |-> 0, requests |-> 0, slept |-> <<>>,
     last_exception |-> NoException, exception |-> NoException,
     result |-> NoResponse]

\* no call of _needs_update in progress
IdleNeeds == [existing |-> NULL, external |-> NULL, result |-> "idle"]

\* no call of get_all_companies in progress
IdlePages ==
    [pc |-> "idle", max_concurrent |-> 0, total_pages |-> 0, value |-> 0,
     task |-> [p \in 1..MaxPages |-> "none"],
     rows |-> [p \in 1..MaxPages |-> <<>>],
     requests |-> [p \in 1..MaxPages |-> 0],
     completed |-> <<>>, result |-> <<>>]

\* models/sync.py SyncProgressResponse (the counters and the percentage);
\* NoSnapshot stands for no response body
Snapshot(is_running, current_page, total_pages, processed_records, total_records, percentage) ==
    [is_running |-> is_running, current_page |-> current_page,
     total_pages |-> total_pages, processed_records |-> processed_records,
     total_records |-> total_records, percentage |-> percentage]

NoSnapshot == Snapshot(FALSE, NULL, NULL, NULL, NULL, NULL)

\* the dict get_sync_status builds from a row; EmptyDict is {}
Dict(id, row) == [id |-> id, row |-> row]

EmptyDict == Dict(NULL, SyncLogUpdate("NULL", NULL, NULL, NULL, "NULL", NULL))

\* no GET request made
IdlePoll ==
    [pc |-> "idle", status_code |-> 0, progress |-> NoSnapshot,
     status |-> EmptyDict]

\* the state after construction of everything but the companies table and
\* the external source
Constructed ==
    /\ states = [o \in 0..MaxCalls |-> SyncState]
    /\ sync_state = 0
    /\ sync_logs = <<>>
    /\ in_txn = FALSE
    /\ call = [c \in Calls |-> IdleCall]
    /\ task = [c \in Calls |-> IdleTask]
    /\ cancel = [k \in Cancels |-> IdleCancel]
    /\ faults = 0
    /\ failed_txns = {}

Init ==
    /\ Constructed
    /\ companies \in InitStores
    /\ committed = companies
    /\ source \in Sources
    /\ reported = Len(source)
    /\ request = IdleRequest
    /\ needs = IdleNeeds
    /\ pages = IdlePages
    /\ poll = IdlePoll

\* ------------------------------------------------- POST /sync: start_sync

\* StartSync without the check of is_running
StartSync_NoFlagCheck(c) ==
    /\ call[c].pc = "idle"
    /\ \A b \in Calls : b < c => call[b].pc # "idle"
    /\ call' = [call EXCEPT ![c].pc = "create_sync_log"]
    /\ UNCHANGED <<states, sync_state, sync_logs, companies, committed,
                   in_txn, task, cancel, source, faults, failed_txns>>
    /\ UNCHANGED <<request, needs, pages, poll, reported>>

\* routes/sync.py start_sync -> SyncService.start_sync up to the first
\* suspension: the flag check, then _create_sync_log awaits the connection.
StartSync(c) ==
    /\ call[c].pc = "idle"
    /\ \A b \in Calls : b < c => call[b].pc # "idle"   \* numbered as they arrive
    /\ IF get_sync_state.is_running
       THEN call' = [call EXCEPT ![c].pc = "409"]
       ELSE call' = [call EXCEPT ![c].pc = "create_sync_log"]
    /\ UNCHANGED <<states, sync_state, sync_logs, companies, committed,
                   in_txn, task, cancel, source, faults, failed_txns>>
    /\ UNCHANGED <<request, needs, pages, poll, reported>>

\* CreateSyncLog that marks the current state object running instead of
\* building a fresh SyncState: the counters of the last run stay
CreateSyncLog_KeepCounters(c) ==
    /\ call[c].pc = "create_sync_log"
    /\ \/ /\ sync_logs' = InsertSyncLog(sync_logs)
          /\ committed' = companies
          /\ in_txn' = FALSE
          /\ states' = [states EXCEPT ![c] =
                          [get_sync_state EXCEPT
                              !.is_running = TRUE,
                              !.current_sync_id = Len(sync_logs) + 1]]
          /\ sync_state' = c
          /\ call' = [call EXCEPT ![c] =
                        [pc |-> "202", id |-> Len(sync_logs) + 1]]
          /\ task' = [task EXCEPT ![c].pc = "created"]
          /\ UNCHANGED faults
       \/ /\ faults < MaxFaults
          /\ faults' = faults + 1
          /\ call' = [call EXCEPT ![c].pc = "500"]
          /\ UNCHANGED <<states, sync_state, sync_logs, committed,
                         in_txn, task>>
    /\ UNCHANGED <<companies, cancel, source, failed_txns>>
    /\ UNCHANGED <<request, needs, pages, poll, reported>>

\* CreateSyncLog of a route that answers 202 without creating the task
CreateSyncLog_NoTask(c) ==
    /\ call[c].pc = "create_sync_log"
    /\ \/ /\ sync_logs' = InsertSyncLog(sync_logs)
          /\ committed' = companies
          /\ in_txn' = FALSE
          /\ states' = [states EXCEPT ![c] =
                          [SyncState EXCEPT
                              !.is_running = TRUE,
                              !.current_sync_id = Len(sync_logs) + 1]]
          /\ sync_state' = c
          /\ call' = [call EXCEPT ![c] =
                        [pc |-> "202", id |-> Len(sync_logs) + 1]]
          /\ UNCHANGED task
          /\ UNCHANGED faults
       \/ /\ faults < MaxFaults
          /\ faults' = faults + 1
          /\ call' = [call EXCEPT ![c].pc = "500"]
          /\ UNCHANGED <<states, sync_state, sync_logs, committed,
                         in_txn, task>>
    /\ UNCHANGED <<companies, cancel, source, failed_txns>>
    /\ UNCHANGED <<request, needs, pages, poll, reported>>

\* CreateSyncLog of a start_sync that installs the running state before it
\* awaits _create_sync_log: an insert that raises leaves the flag set
CreateSyncLog_StateBeforeInsert(c) ==
    /\ call[c].pc = "create_sync_log"
    /\ \/ /\ sync_logs' = InsertSyncLog(sync_logs)
          /\ committed' = companies
          /\ in_txn' = FALSE
          /\ states' = [states EXCEPT ![c] =
                          [SyncState EXCEPT
                              !.is_running = TRUE,
                              !.current_sync_id = Len(sync_logs) + 1]]
          /\ sync_state' = c
          /\ call' = [call EXCEPT ![c] =
                        [pc |-> "202", id |-> Len(sync_logs) + 1]]
          /\ task' = [task EXCEPT ![c].pc = "created"]
          /\ UNCHANGED faults
       \/ /\ faults < MaxFaults
          /\ faults' = faults + 1
          /\ call' = [call EXCEPT ![c].pc = "500"]
          /\ states' = [states EXCEPT ![c] =
                          [SyncState EXCEPT !.is_running = TRUE]]
          /\ sync_state' = c
          /\ UNCHANGED <<sync_logs, committed, in_txn, task>>
    /\ UNCHANGED <<companies, cancel, source, failed_txns>>
    /\ UNCHANGED <<request, needs, pages, poll, reported>>

\* _create_sync_log has inserted and committed the row and read
\* cursor.lastrowid; start_sync builds the new SyncState and installs it; the
\* route creates the background task and answers 202.  An insert that
\* raises ends start_sync before the state is built: the route answers 500.
CreateSyncLog(c) ==
    /\ call[c].pc = "create_sync_log"
    /\ \/ /\ sync_logs' = InsertSyncLog(sync_logs)
          /\ committed' = companies
          /\ in_txn' = FALSE
          /\ states' = [states EXCEPT ![c] =
                          [SyncState EXCEPT
                              !.is_running = TRUE,
                              !.current_sync_id = Len(sync_logs) + 1]]
          /\ sync_state' = c
          /\ call' = [call EXCEPT ![c] =
                        [pc |-> "202", id |-> Len(sync_logs) + 1]]
          /\ task' = [task EXCEPT ![c].pc = "created"]
          /\ UNCHANGED faults
       \/ /\ faults < MaxFaults
          /\ faults' = faults + 1
          /\ call' = [call EXCEPT ![c].pc = "500"]
          /\ UNCHANGED <<states, sync_state, sync_logs, committed,
                         in_txn, task>>
    /\ UNCHANGED <<companies, cancel, source, failed_txns>>
    /\ UNCHANGED <<request, needs, pages, poll, reported>>

\* ------------------------------------------- POST /sync/cancel: cancel_sync

\* CancelSync without the check of is_running
CancelSync_NoFlagCheck(k) ==
    /\ cancel[k].pc = "idle"
    /\ \A j \in Cancels : j < k => cancel[j].pc # "idle"
    /\ LET state == get_sync_state IN
       IF state.current_sync_id # NULL
       THEN /\ cancel' = [cancel EXCEPT ![k] =
                   [pc |-> "update_sync_log", state |-> sync_state,
                    id |-> state.current_sync_id]]
            /\ UNCHANGED states
       ELSE /\ states' = [states EXCEPT ![sync_state].is_running = FALSE]
            /\ cancel' = [cancel EXCEPT ![k].pc = "200"]
    /\ UNCHANGED <<sync_state, sync_logs, companies, committed, in_txn, call,
                   task, source, faults, failed_txns>>
    /\ UNCHANGED <<request, needs, pages, poll, reported>>

\* routes/sync.py cancel_sync -> SyncService.cancel_sync up to the first
\* suspension: not running answers 404; otherwise _update_sync_log awaits
\* the connection.
CancelSync(k) ==
    /\ cancel[k].pc = "idle"
    /\ \A j \in Cancels : j < k => cancel[j].pc # "idle"
    /\ LET state == get_sync_state IN
       IF ~state.is_running
       THEN /\ cancel' = [cancel EXCEPT ![k].pc = "404"]
            /\ UNCHANGED states
       ELSE IF state.current_sync_id # NULL
            THEN /\ cancel' = [cancel EXCEPT ![k] =
                        [pc |-> "update_sync_log", state |-> sync_state,
                         id |-> state.current_sync_id]]
                 /\ UNCHANGED states
            ELSE /\ states' = [states EXCEPT ![sync_state].is_running = FALSE]
                 /\ cancel' = [cancel EXCEPT ![k].pc = "200"]
    /\ UNCHANGED <<sync_state, sync_logs, companies, committed, in_txn, call,
                   task, source, faults, failed_txns>>
    /\ UNCHANGED <<request, needs, pages, poll, reported>>

\* cancel_sync: _update_sync_log has written and committed the cancelled row
\* (no counts); the flag of the state object read at the start is cleared,
\* the object is installed again and the route answers 200.  A statement
\* that raises ends the request with 500 before the flag is touched.
CancelUpdateSyncLog(k) ==
    /\ cancel[k].pc = "update_sync_log"
    /\ \/ /\ sync_logs' = UpdateSyncLog(sync_logs, cancel[k].id,
                SyncLogUpdate("cancelled", NULL, NULL, NULL, "NULL", NULL))
          /\ committed' = companies
          /\ in_txn' = FALSE
          /\ states' = [states EXCEPT ![cancel[k].state].is_running = FALSE]
          /\ sync_state' = cancel[k].state
          /\ cancel' = [cancel EXCEPT ![k].pc = "200"]
          /\ UNCHANGED faults
       \/ /\ faults < MaxFaults
          /\ faults' = faults + 1
          /\ cancel' = [cancel EXCEPT ![k].pc = "500"]
          /\ UNCHANGED <<states, sync_state, sync_logs, committed, in_txn>>
    /\ UNCHANGED <<companies, call, task, source, failed_txns>>
    /\ UNCHANGED <<request, needs, pages, poll, reported>>

\* ------------------------------------------------ reconciliation engine

Min(a, b) == IF a < b THEN a ELSE b

\* A timestamp string is NULL (None), EMPTY, BAD, t (an ISO string without
\* UTC offset, of instant t >= 0) or TZ + t (an ISO string with a UTC offset).

\* bool(s) of an Optional[str]
truthy(s) == s # NULL /\ s # EMPTY

\* datetime.fromisoformat(s) of a string: ValueError (ok FALSE), a naive
\* datetime or an aware one
fromisoformat(s) ==
    [ok |-> s >= 0, aware |-> s >= TZ, t |-> IF s >= TZ THEN s - TZ ELSE s]

\* SyncService._needs_update raises: both strings parse (a ValueError is
\* passed over) and "external_time <= existing_time" compares a naive
\* datetime with an aware one, which is a TypeError
_needs_update_raises(existing, external) ==
    /\ truthy(external.update_time)
    /\ truthy(existing.update_time)
    /\ fromisoformat(external.update_time).ok
    /\ fromisoformat(existing.update_time).ok
    /\ fromisoformat(external.update_time).aware
           # fromisoformat(existing.update_time).aware

\* _needs_update comparing with < : equal timestamps are an update
_needs_update_Strict(existing, external) ==
    ~ (/\ truthy(external.update_time)
       /\ truthy(existing.update_time)
       /\ fromisoformat(external.update_time).ok
       /\ fromisoformat(existing.update_time).ok
       /\ fromisoformat(external.update_time).t
              < fromisoformat(existing.update_time).t)

\* SyncService._needs_update when it returns: false only when both strings
\* are truthy, both parse and the incoming instant is not the newer one
_needs_update(existing, external) ==
    ~ (/\ truthy(external.update_time)
       /\ truthy(existing.update_time)
       /\ fromisoformat(external.update_time).ok
       /\ fromisoformat(existing.update_time).ok
       /\ fromisoformat(external.update_time).t
              <= fromisoformat(existing.update_time).t)

\* the classification loop with the try around the loop instead of inside
\* it: the first record whose to_internal raises ends the classification
RECURSIVE Classify_StopsAtInvalid(_, _)
Classify_StopsAtInvalid(batch, existing_by_id) ==
    IF batch = <<>>
    THEN [to_insert |-> <<>>, to_update |-> <<>>, failed_count |-> 0]
    ELSE LET x    == Head(batch)
             rest == Classify_StopsAtInvalid(Tail(batch), existing_by_id)
         IN  IF ~x.valid
             THEN [to_insert |-> <<>>, to_update |-> <<>>, failed_count |-> 1]
             ELSE IF existing_by_id[x.id].present
             THEN IF _needs_update(existing_by_id[x.id], x)
                  THEN [rest EXCEPT !.to_update = <<x>> \o @]
                  ELSE rest
             ELSE [rest EXCEPT !.to_insert = <<x>> \o @]

\* the classification loop with the two branches of the lookup exchanged:
\* an unknown id goes to the update list
RECURSIVE Classify_UnknownIsUpdate(_, _)
Classify_UnknownIsUpdate(batch, existing_by_id) ==
    IF batch = <<>>
    THEN [to_insert |-> <<>>, to_update |-> <<>>, failed_count |-> 0]
    ELSE LET x    == Head(batch)
             rest == Classify_UnknownIsUpdate(Tail(batch), existing_by_id)
         IN  IF ~x.valid
             THEN [rest EXCEPT !.failed_count = @ + 1]
             ELSE IF ~existing_by_id[x.id].present
             THEN [rest EXCEPT !.to_update = <<x>> \o @]
             ELSE [rest EXCEPT !.to_insert = <<x>> \o @]

\* SyncService._process_batch, the classification loop: a record whose
\* to_internal (or whose _needs_update) raises is counted failed, an unknown
\* id is an insert, a known id is an update when _needs_update says so and
\* is otherwise dropped.
RECURSIVE Classify(_, _)
Classify(batch, existing_by_id) ==
    IF batch = <<>>
    THEN [to_insert |-> <<>>, to_update |-> <<>>, failed_count |-> 0]
    ELSE LET x    == Head(batch)
             rest == Classify(Tail(batch), existing_by_id)
         IN  IF ~x.valid
             THEN [rest EXCEPT !.failed_count = @ + 1]
             ELSE IF existing_by_id[x.id].present
             THEN IF _needs_update_raises(existing_by_id[x.id], x)
                  THEN [rest EXCEPT !.failed_count = @ + 1]
                  ELSE IF _needs_update(existing_by_id[x.id], x)
                  THEN [rest EXCEPT !.to_update = <<x>> \o @]
                  ELSE rest
             ELSE [rest EXCEPT !.to_insert = <<x>> \o @]

\* the batch loop reading the store again for every batch: each batch is
\* classified against the table as it is when the batch starts
RECURSIVE NextBatch_ReadsStoreAgain(_)
NextBatch_ReadsStoreAgain(t) ==
    LET i == t.i + BatchSize
        n == Len(t.external_companies)
    IN  IF i >= n
        THEN [t EXCEPT !.pc = "done_update"]
        ELSE LET batch == SubSeq(t.external_companies, i + 1,
                                 Min(i + BatchSize, n))
                 cl    == Classify(batch, companies)
                 b     == [t EXCEPT !.i = i,
                                    !.existing_by_id = companies,
                                    !.to_insert = cl.to_insert,
                                    !.to_update = cl.to_update,
                                    !.k = 0,
                                    !.batch_success = 0,
                                    !.batch_failed = cl.failed_count]
             IN  IF cl.to_insert # <<>>
                 THEN [b EXCEPT !.pc = "insert_begin"]
                 ELSE IF cl.to_update # <<>>
                 THEN [b EXCEPT !.pc = "update_begin"]
                 ELSE NextBatch_ReadsStoreAgain(
                          [b EXCEPT !.failed_count = @ + cl.failed_count])

\* the batch loop with a cancellation check between batches: it ends as soon
\* as the flag of the run's state object is cleared
RECURSIVE NextBatch_StopsWhenCancelled(_)
NextBatch_StopsWhenCancelled(t) ==
    LET i == t.i + BatchSize
        n == Len(t.external_companies)
    IN  IF i >= n \/ ~states[t.state].is_running
        THEN [t EXCEPT !.pc = "done_update"]
        ELSE LET batch == SubSeq(t.external_companies, i + 1,
                                 Min(i + BatchSize, n))
                 cl    == Classify(batch, t.existing_by_id)
                 b     == [t EXCEPT !.i = i,
                                    !.to_insert = cl.to_insert,
                                    !.to_update = cl.to_update,
                                    !.k = 0,
                                    !.batch_success = 0,
                                    !.batch_failed = cl.failed_count]
             IN  IF cl.to_insert # <<>>
                 THEN [b EXCEPT !.pc = "insert_begin"]
                 ELSE IF cl.to_update # <<>>
                 THEN [b EXCEPT !.pc = "update_begin"]
                 ELSE NextBatch_StopsWhenCancelled(
                          [b EXCEPT !.failed_count = @ + cl.failed_count])

\* perform_sync, the batch loop from the end of the batch at offset t.i up
\* to the next suspension: batches with nothing to write are passed without
\* suspending; the loop ends at the terminal sync-log write.
RECURSIVE NextBatch(_)
NextBatch(t) ==
    LET i == t.i + BatchSize
        n == Len(t.external_companies)
    IN  IF i >= n
        THEN [t EXCEPT !.pc = "done_update"]
        ELSE LET batch == SubSeq(t.external_companies, i + 1,
                                 Min(i + BatchSize, n))
                 cl    == Classify(batch, t.existing_by_id)
                 b     == [t EXCEPT !.i = i,
                                    !.to_insert = cl.to_insert,
                                    !.to_update = cl.to_update,
                                    !.k = 0,
                                    !.batch_success = 0,
                                    !.batch_failed = cl.failed_count]
             IN  IF cl.to_insert # <<>>
                 THEN [b EXCEPT !.pc = "insert_begin"]
                 ELSE IF cl.to_update # <<>>
                 THEN [b EXCEPT !.pc = "update_begin"]
                 ELSE NextBatch([b EXCEPT !.failed_count = @ + cl.failed_count])

\* _process_batch returns: perform_sync adds the batch's counts and goes on
BatchDone(t) ==
    NextBatch([t EXCEPT !.success_count = @ + t.batch_success,
                        !.failed_count = @ + t.batch_failed,
                        !.to_insert = <<>>, !.to_update = <<>>, !.k = 0,
                        !.batch_success = 0, !.batch_failed = 0])

\* SyncState.update_progress with the values perform_sync computes for the
\* batch at offset i of n records
update_progress(state, i, n) ==
    [state EXCEPT !.current_page = (i \div BatchSize) + 1,
                  !.total_pages = (n + BatchSize - 1) \div BatchSize,
                  !.processed_records = Min(i + BatchSize, n)]

\* the progress state after the loop moved task record t to r: the last
\* batch entered, if any, has called update_progress
Progressed(t, r) ==
    IF r.i # t.i
    THEN [states EXCEPT ![r.state] =
            update_progress(@, r.i, Len(r.external_companies))]
    ELSE states

\* an exception reaches perform_sync's handler, which awaits the failed write
Raise(t, e) == [t EXCEPT !.pc = "fail_update", !.e = e]

\* ------------------------------------------ background task: perform_sync

page_size == 50

\* run_sync_background up to the first suspension: APIClient() and its
\* initialize() either raise, which leads to the task's own handler, or
\* perform_sync starts, reads the global state object and awaits
\* get_total_pages.
RunSyncBackground(c) ==
    /\ task[c].pc = "created"
    /\ \/ task' = [task EXCEPT ![c].pc = "bg_update", ![c].e = "client"]
       \/ task' = [task EXCEPT ![c].pc = "get_total_pages",
                               ![c].state = sync_state]
    /\ UNCHANGED <<states, sync_state, sync_logs, companies, committed,
                   in_txn, call, cancel, source, faults, failed_txns>>
    /\ UNCHANGED <<request, needs, pages, poll, reported>>

\* perform_sync: get_total_pages returns or raises
GetTotalPages(c) ==
    /\ task[c].pc = "get_total_pages"
    /\ \/ task' = [task EXCEPT ![c].pc = "get_companies_page"]
       \/ task' = [task EXCEPT ![c] = Raise(@, "api")]
    /\ UNCHANGED <<states, sync_state, sync_logs, companies, committed,
                   in_txn, call, cancel, source, faults, failed_txns>>
    /\ UNCHANGED <<request, needs, pages, poll, reported>>

\* perform_sync: get_companies_page(1) returns or raises; first_page.total and
\* the page count get_total_pages computed from it are written into the
\* state object read at the start
GetCompaniesPage(c) ==
    /\ task[c].pc = "get_companies_page"
    /\ \/ /\ task' = [task EXCEPT ![c].pc = "get_all_companies",
                                  ![c].total_records = reported]
          /\ states' = [states EXCEPT
                ![task[c].state].total_records = reported,
                ![task[c].state].total_pages =
                    (reported + page_size - 1) \div page_size]
       \/ /\ task' = [task EXCEPT ![c] = Raise(@, "api")]
          /\ UNCHANGED states
    /\ UNCHANGED <<sync_state, sync_logs, companies, committed, in_txn,
                   call, cancel, source, faults, failed_txns>>
    /\ UNCHANGED <<request, needs, pages, poll, reported>>

\* get_all_companies keeping the pages that arrived when a page fetch
\* fails, instead of raising
GetAllCompanies_Partial(c) ==
    /\ task[c].pc = "get_all_companies"
    /\ \E n \in 0..Len(source) :
          task' = [task EXCEPT ![c].pc = "get_existing",
                               ![c].external_companies = SubSeq(source, 1, n)]
    /\ UNCHANGED <<states, sync_state, sync_logs, companies, committed,
                   in_txn, call, cancel, source, faults, failed_txns>>
    /\ UNCHANGED <<request, needs, pages, poll, reported>>

\* perform_sync: get_all_companies returns every record or raises
GetAllCompanies(c) ==
    /\ task[c].pc = "get_all_companies"
    /\ \/ task' = [task EXCEPT ![c].pc = "get_existing",
                               ![c].external_companies = source]
       \/ task' = [task EXCEPT ![c] = Raise(@, "api")]
    /\ UNCHANGED <<states, sync_state, sync_logs, companies, committed,
                   in_txn, call, cancel, source, faults, failed_txns>>
    /\ UNCHANGED <<request, needs, pages, poll, reported>>

\* perform_sync: _get_existing_companies has read the table through the
\* connection; the index is built and the batch loop runs to its first
\* suspension
GetExistingCompanies(c) ==
    /\ task[c].pc = "get_existing"
    /\ LET t == [task[c] EXCEPT !.existing_by_id = companies,
                                !.i = 0 - BatchSize]
           r == NextBatch(t)
       IN  /\ task' = [task EXCEPT ![c] = r]
           /\ states' = Progressed(t, r)
    /\ UNCHANGED <<sync_state, sync_logs, companies, committed, in_txn,
                   call, cancel, source, faults, failed_txns>>
    /\ UNCHANGED <<request, needs, pages, poll, reported>>

\* ---------------------------------------------------- batch transactions

\* InsertCommit of a _process_batch that returns after the inserts, without
\* running the updates of the batch
InsertCommit_SkipsUpdates(c) ==
    /\ task[c].pc = "insert_commit"
    /\ committed' = companies
    /\ in_txn' = FALSE
    /\ LET t == [task[c] EXCEPT !.batch_success = @ + Len(task[c].to_insert)]
           r == BatchDone(t)
       IN  /\ task' = [task EXCEPT ![c] = r]
           /\ states' = Progressed(t, r)
    /\ UNCHANGED <<sync_state, sync_logs, companies, call, cancel, source,
                   faults, failed_txns>>
    /\ UNCHANGED <<request, needs, pages, poll, reported>>

\* last_sync_at of the rows a batch transaction writes
Stamp(c, kind) == <<c, task[c].i, kind>>

\* _insert_companies / _update_companies: BEGIN TRANSACTION has run; it
\* raises when the connection already has a transaction open
Begin(c, kind, pc_begin, pc_next) ==
    /\ task[c].pc = pc_begin
    /\ IF in_txn
       THEN /\ task' = [task EXCEPT ![c] = Raise(@, kind)]
            /\ failed_txns' = failed_txns \cup {Stamp(c, kind)}
            /\ UNCHANGED in_txn
       ELSE /\ task' = [task EXCEPT ![c].pc = pc_next]
            /\ in_txn' = TRUE
            /\ UNCHANGED failed_txns
    /\ UNCHANGED <<states, sync_state, sync_logs, companies, committed,
                   call, cancel, source, faults>>
    /\ UNCHANGED <<request, needs, pages, poll, reported>>

InsertBegin(c) == Begin(c, "insert", "insert_begin", "insert_many")

UpdateBegin(c) == Begin(c, "update", "update_begin", "update_exec")

\* executemany(INSERT ...) into a table whose id is not a key: every row is
\* added, next to the rows of its id that are there
RECURSIVE InsertRows_NoPrimaryKey(_, _, _)
InsertRows_NoPrimaryKey(table, rows, stamp) ==
    IF rows = <<>>
    THEN [table |-> table, ok |-> TRUE]
    ELSE LET x == Head(rows) IN
         InsertRows_NoPrimaryKey(
             [table EXCEPT ![x.id] =
                 [Row(x.update_time, stamp) EXCEPT !.rows = table[x.id].rows + 1]],
             Tail(rows), stamp)

\* executemany(INSERT ...): the rows are inserted one after the other; id is
\* the PRIMARY KEY, so the first one whose id is already in the table raises
\* and the rows before it stay written in the open transaction
RECURSIVE InsertRows(_, _, _)
InsertRows(table, rows, stamp) ==
    IF rows = <<>>
    THEN [table |-> table, ok |-> TRUE]
    ELSE LET x == Head(rows) IN
         IF table[x.id].present
         THEN [table |-> table, ok |-> FALSE]
         ELSE InsertRows([table EXCEPT ![x.id] = Row(x.update_time, stamp)],
                         Tail(rows), stamp)

\* _insert_companies: the executemany has run
InsertMany(c) ==
    /\ task[c].pc = "insert_many"
    /\ LET r == InsertRows(companies, task[c].to_insert, Stamp(c, "insert")) IN
       /\ companies' = r.table
       /\ in_txn' = TRUE
       /\ IF r.ok
          THEN /\ task' = [task EXCEPT ![c].pc = "insert_commit"]
               /\ UNCHANGED failed_txns
          ELSE /\ task' = [task EXCEPT ![c] = Raise(@, "insert")]
               /\ failed_txns' = failed_txns \cup {Stamp(c, "insert")}
    /\ UNCHANGED <<states, sync_state, sync_logs, committed, call, cancel,
                   source, faults>>
    /\ UNCHANGED <<request, needs, pages, poll, reported>>

\* _insert_companies: the commit has run and len(companies) is returned;
\* _process_batch goes on to the updates or returns to the batch loop
InsertCommit(c) ==
    /\ task[c].pc = "insert_commit"
    /\ committed' = companies
    /\ in_txn' = FALSE
    /\ LET t == [task[c] EXCEPT !.batch_success = @ + Len(task[c].to_insert)]
           r == IF t.to_update # <<>>
                THEN [t EXCEPT !.pc = "update_begin"]
                ELSE BatchDone(t)
       IN  /\ task' = [task EXCEPT ![c] = r]
           /\ states' = Progressed(t, r)
    /\ UNCHANGED <<sync_state, sync_logs, companies, call, cancel, source,
                   faults, failed_txns>>
    /\ UNCHANGED <<request, needs, pages, poll, reported>>

\* _update_companies: one UPDATE ... WHERE id = ? has run (it changes the row
\* if there is one) or has raised
UpdateExec(c) ==
    /\ task[c].pc = "update_exec"
    /\ LET x == task[c].to_update[task[c].k + 1] IN
       \/ /\ companies' = IF companies[x.id].present
                          THEN [companies EXCEPT
                                  ![x.id].update_time = x.update_time,
                                  ![x.id].last_sync_at = Stamp(c, "update")]
                          ELSE companies
          /\ in_txn' = TRUE
          /\ task' = [task EXCEPT
                ![c].k = @ + 1,
                ![c].pc = IF task[c].k + 1 = Len(task[c].to_update)
                          THEN "update_commit" ELSE "update_exec"]
          /\ UNCHANGED <<faults, failed_txns>>
       \/ /\ faults < MaxFaults
          /\ faults' = faults + 1
          /\ task' = [task EXCEPT ![c] = Raise(@, "update")]
          /\ failed_txns' = failed_txns \cup {Stamp(c, "update")}
          /\ UNCHANGED <<companies, in_txn>>
    /\ UNCHANGED <<states, sync_state, sync_logs, committed, call, cancel,
                   source>>
    /\ UNCHANGED <<request, needs, pages, poll, reported>>

\* _update_companies: the commit has run; _process_batch returns
UpdateCommit(c) ==
    /\ task[c].pc = "update_commit"
    /\ committed' = companies
    /\ in_txn' = FALSE
    /\ LET t == [task[c] EXCEPT !.batch_success = @ + Len(task[c].to_update)]
           r == BatchDone(t)
       IN  /\ task' = [task EXCEPT ![c] = r]
           /\ states' = Progressed(t, r)
    /\ UNCHANGED <<sync_state, sync_logs, companies, call, cancel, source,
                   faults, failed_txns>>
    /\ UNCHANGED <<request, needs, pages, poll, reported>>

\* ------------------------------------------------ terminal sync-log writes

\* _update_sync_log called by task c: the UPDATE and the commit have run
\* (the commit makes durable whatever the connection holds), or the
\* statement raised
UpdateSyncLogOk(c, update) ==
    /\ sync_logs' = UpdateSyncLog(sync_logs, call[c].id, update)
    /\ committed' = companies
    /\ in_txn' = FALSE
    /\ UNCHANGED faults

UpdateSyncLogRaises ==
    /\ faults < MaxFaults
    /\ faults' = faults + 1
    /\ UNCHANGED <<sync_logs, committed, in_txn>>

\* perform_sync clears the flag of the state object it read at the start
\* and installs that object as the global state
ClearRunning(c) ==
    /\ states' = [states EXCEPT ![task[c].state].is_running = FALSE]
    /\ sync_state' = task[c].state

\* perform_sync after the loop: the completed row is written, the flag is
\* cleared, the result is returned and run_sync_background ends; a write
\* that raises is caught by perform_sync's own handler
Completed(c) ==
    /\ task[c].pc = "done_update"
    /\ \/ /\ UpdateSyncLogOk(c,
                SyncLogUpdate("completed", task[c].total_records,
                              task[c].success_count, task[c].failed_count,
                              "NULL", Now))
          /\ ClearRunning(c)
          /\ task' = [task EXCEPT ![c].pc = "finished"]
       \/ /\ UpdateSyncLogRaises
          /\ task' = [task EXCEPT ![c] = Raise(@, "log")]
          /\ UNCHANGED <<states, sync_state>>
    /\ UNCHANGED <<companies, call, cancel, source, failed_txns>>
    /\ UNCHANGED <<request, needs, pages, poll, reported>>

\* perform_sync's handler: the failed row is written, the flag is cleared
\* and the exception is raised again; a write that raises leaves the handler
\* at once.  Either way run_sync_background's handler is next.
Failed(c) ==
    /\ task[c].pc = "fail_update"
    /\ \/ /\ UpdateSyncLogOk(c,
                SyncLogUpdate("failed", NULL, NULL, NULL, task[c].e, Now))
          /\ ClearRunning(c)
          /\ task' = [task EXCEPT ![c].pc = "bg_update"]
       \/ /\ UpdateSyncLogRaises
          /\ task' = [task EXCEPT ![c].pc = "bg_update", ![c].e = "log"]
          /\ UNCHANGED <<states, sync_state>>
    /\ UNCHANGED <<companies, call, cancel, source, failed_txns>>
    /\ UNCHANGED <<request, needs, pages, poll, reported>>

\* run_sync_background's handler: the failed row is written (again) and the
\* task ends; a write that raises is logged.  The handler does not touch the
\* progress state.
BackgroundFailed(c) ==
    /\ task[c].pc = "bg_update"
    /\ \/ UpdateSyncLogOk(c,
                SyncLogUpdate("failed", NULL, NULL, NULL, task[c].e, NULL))
       \/ UpdateSyncLogRaises
    /\ task' = [task EXCEPT ![c].pc = "finished"]
    /\ UNCHANGED <<states, sync_state, companies, call, cancel, source,
                   failed_txns>>
    /\ UNCHANGED <<request, needs, pages, poll, reported>>

\* ------------------------------------------------------------------- Next

StartNext ==
    \/ \E c \in Calls : StartSync(c)
    \/ \E c \in Calls : CreateSyncLog(c)

CancelNext ==
    \/ \E k \in Cancels : CancelSync(k)
    \/ \E k \in Cancels : CancelUpdateSyncLog(k)

TaskNext ==
    \/ \E c \in Calls : RunSyncBackground(c)
    \/ \E c \in Calls : GetTotalPages(c)
    \/ \E c \in Calls : GetCompaniesPage(c)
    \/ \E c \in Calls : GetAllCompanies(c)
    \/ \E c \in Calls : GetExistingCompanies(c)
    \/ \E c \in Calls : InsertBegin(c)
    \/ \E c \in Calls : InsertMany(c)
    \/ \E c \in Calls : InsertCommit(c)
    \/ \E c \in Calls : UpdateBegin(c)
    \/ \E c \in Calls : UpdateExec(c)
    \/ \E c \in Calls : UpdateCommit(c)
    \/ \E c \in Calls : Completed(c)
    \/ \E c \in Calls : Failed(c)
    \/ \E c \in Calls : BackgroundFailed(c)

Next == StartNext \/ CancelNext \/ TaskNext

Spec == Init /\ [][Next]_vars

\* task scheduling: the event loop runs every ready task and every awaited
\* call returns or raises, so a background task that can step does step;
\* requests are sent by clients and need not come
FairSpec == Spec /\ WF_vars(TaskNext)

\* ---------------------------------------------------- APIClient._request

Responses ==
    { Response(200, TRUE), Response(200, FALSE), Response(0, FALSE),
      Response(400, FALSE), Response(499, TRUE), Response(500, FALSE),
      Response(503, TRUE) }

RECURSIVE Pow2(_)
Pow2(n) == IF n = 0 THEN 1 ELSE 2 * Pow2(n - 1)

\* the delay without the exponent: every backoff is sync_retry_delay
Backoff_Flat(q) == q.retry_delay

\* _request: delay = sync_retry_delay * (2 ** attempt)
Backoff(q) == q.retry_delay * Pow2(q.attempt)

\* the loop's end raising a fresh APIException instead of last_exception
AfterFailure_FreshException(q) ==
    IF q.attempt < q.retry_attempts
    THEN [q EXCEPT !.pc = "sleep"]
    ELSE [q EXCEPT !.pc = "raised", !.exception = APIException(NULL)]

\* _request after a failure that is retried: asyncio.sleep is awaited before
\* the next attempt; after the last attempt the loop ends and
\* last_exception is raised
AfterFailure(q) ==
    IF q.attempt < q.retry_attempts
    THEN [q EXCEPT !.pc = "sleep"]
    ELSE [q EXCEPT !.pc = "raised", !.exception = q.last_exception]

\* the HTTPStatusError handler without the 4xx test: every status is retried
HTTPStatusError_Retry4xx(q, r) ==
    AfterFailure([q EXCEPT !.last_exception = APIException(r.status)])

\* _request, the handler of httpx.HTTPStatusError: a 4xx is raised at once,
\* any other status is retried
HTTPStatusError(q, r) ==
    IF 400 <= r.status /\ r.status < 500
    THEN [q EXCEPT !.pc = "raised",
                   !.last_exception = APIException(r.status),
                   !.exception = APIException(r.status)]
    ELSE AfterFailure([q EXCEPT !.last_exception = APIException(r.status)])

\* one pass of the loop body with the JSON failure handled like a request
\* error: a 2xx response whose body is not JSON is retried
Attempt_RetryBadJson(q, r) ==
    LET p == [q EXCEPT !.requests = @ + 1] IN
    IF r.status = 0
    THEN AfterFailure([p EXCEPT !.last_exception = APIException(NULL)])
    ELSE IF r.status \in 200..299
    THEN IF r.json
         THEN [p EXCEPT !.pc = "returned", !.result = r]
         ELSE AfterFailure([p EXCEPT !.last_exception = APIException(NULL)])
    ELSE HTTPStatusError(p, r)

\* _request, one pass of the loop body once client.request has answered r:
\* raise_for_status raises for a status that is not 2xx, response.json()
\* failing raises an APIException no handler of the loop catches
Attempt(q, r) ==
    LET p == [q EXCEPT !.requests = @ + 1] IN
    IF r.status = 0
    THEN AfterFailure([p EXCEPT !.last_exception = APIException(NULL)])
    ELSE IF r.status \in 200..299
    THEN IF r.json
         THEN [p EXCEPT !.pc = "returned", !.result = r]
         ELSE [p EXCEPT !.pc = "raised", !.exception = APIException(NULL)]
    ELSE HTTPStatusError(p, r)

\* a call of _request with the client initialised: the settings and the
\* answers the server will give to the attempts
RequestInit ==
    /\ Constructed
    /\ companies = [i \in Ids |-> NoRow]
    /\ committed = companies
    /\ source = <<>>
    /\ reported = 0
    /\ needs = IdleNeeds
    /\ pages = IdlePages
    /\ poll = IdlePoll
    /\ \E n \in 0..MaxRetryAttempts, d \in 0..MaxRetryDelay :
          \E rs \in [1..(n + 1) -> Responses] :
              request = [IdleRequest EXCEPT !.pc = "request",
                                            !.retry_attempts = n,
                                            !.retry_delay = d,
                                            !.responses = rs]

\* await self.client.request(...) completes
ClientRequest ==
    /\ request.pc = "request"
    /\ request' = Attempt(request, request.responses[request.attempt + 1])
    /\ UNCHANGED <<states, sync_state, sync_logs, companies, committed,
                   in_txn, call, task, cancel, source, reported, faults,
                   failed_txns,
                   needs, pages, poll>>

\* await asyncio.sleep(delay) completes and the loop goes round
Sleep ==
    /\ request.pc = "sleep"
    /\ request' = [request EXCEPT !.pc = "request",
                                  !.slept = Append(@, Backoff(request)),
                                  !.attempt = @ + 1]
    /\ UNCHANGED <<states, sync_state, sync_logs, companies, committed,
                   in_txn, call, task, cancel, source, reported, faults,
                   failed_txns,
                   needs, pages, poll>>

RequestNext == ClientRequest \/ Sleep

RequestSpec == RequestInit /\ [][RequestNext]_vars

\* ------------------------------------------- SyncService._needs_update

Timestamps ==
    {NULL, EMPTY, BAD} \cup (0..MaxTime) \cup {TZ + t : t \in 0..MaxTime}

\* a call of _needs_update on an existing row and an incoming record
NeedsUpdateInit ==
    /\ Constructed
    /\ companies = [i \in Ids |-> NoRow]
    /\ committed = companies
    /\ source = <<>>
    /\ reported = 0
    /\ request = IdleRequest
    /\ pages = IdlePages
    /\ poll = IdlePoll
    /\ needs \in [existing : Timestamps, external : Timestamps,
                   result : {"called"}]

\* _needs_update returns or raises
NeedsUpdate ==
    /\ needs.result = "called"
    /\ LET existing == [update_time |-> needs.existing]
           external == [update_time |-> needs.external]
       IN  needs' = [needs EXCEPT !.result =
                       IF _needs_update_raises(existing, external)
                       THEN "TypeError"
                       ELSE IF _needs_update(existing, external)
                       THEN "True" ELSE "False"]
    /\ UNCHANGED <<states, sync_state, sync_logs, companies, committed,
                   in_txn, call, task, cancel, source, reported, faults,
                   failed_txns,
                   request, pages, poll>>

NeedsUpdateSpec == NeedsUpdateInit /\ [][NeedsUpdate]_vars

\* ------------------------------------------- APIClient.get_all_companies

\* the totals page 1 of the source may report
Totals == {t \in 0..(MaxPages * page_size) : t % page_size \in {0, 1}}

\* get_total_pages: pages_needed = (total_records + page_size - 1) // page_size
pages_needed(total_records) == (total_records + page_size - 1) \div page_size

\* the rows a fetch of page p may receive: record <<p, j>> is the record the
\* source numbers j on page p
PageRows(p) == { <<>>, << <<p, 1>> >>, << <<p, 2>>, <<p, 1>> >> }

\* all_companies.extend(page_companies) for the pages in the given order
RECURSIVE Extend(_, _)
Extend(results, order) ==
    IF order = <<>>
    THEN <<>>
    ELSE results[Head(order)] \o Extend(results, Tail(order))

\* the flattening over the pages in the order their fetches completed
all_companies_OnCompletion(q) == Extend(q.rows, q.completed)

\* get_all_companies: results of asyncio.gather holds the return values in
\* the order of the tasks list, which is range(1, total_pages + 1), and is
\* flattened in that order
all_companies(q) == Extend(q.rows, [p \in 1..q.total_pages |-> p])

\* a call of get_all_companies with the client initialised: get_total_pages
\* has issued its fetch of page 1
PagesInit ==
    /\ Constructed
    /\ companies = [i \in Ids |-> NoRow]
    /\ committed = companies
    /\ source = <<>>
    /\ reported = 0
    /\ request = IdleRequest
    /\ needs = IdleNeeds
    /\ poll = IdlePoll
    /\ \E m \in 1..MaxConcurrent :
          pages = [IdlePages EXCEPT !.pc = "get_total_pages",
                                    !.max_concurrent = m,
                                    !.requests[1] = 1]

\* get_total_pages: the fetch of page 1 returns the total or raises; then
\* the semaphore is made and one task per page is handed to asyncio.gather,
\* which returns at once when there is none
FirstPage ==
    /\ pages.pc = "get_total_pages"
    /\ \/ \E total \in Totals :
             LET n == pages_needed(total) IN
             pages' = [pages EXCEPT
                 !.total_pages = n,
                 !.value = pages.max_concurrent,
                 !.task = [p \in 1..MaxPages |->
                              IF p <= n THEN "created" ELSE "none"],
                 !.pc = IF n = 0 THEN "returned" ELSE "gather"]
       \/ pages' = [pages EXCEPT !.pc = "raised"]
    /\ UNCHANGED <<states, sync_state, sync_logs, companies, committed,
                   in_txn, call, task, cancel, source, reported, faults,
                   failed_txns,
                   request, needs, poll>>

\* the task of page p entering the semaphore whatever its value
Acquire_NoSemaphore(p) ==
    /\ pages.task[p] = "created"
    /\ \A q \in 1..(p - 1) : pages.task[q] # "created"
    /\ pages' = [pages EXCEPT !.task[p] = "fetching",
                              !.value = @ - 1,
                              !.requests[p] = @ + 1]
    /\ UNCHANGED <<states, sync_state, sync_logs, companies, committed,
                   in_txn, call, task, cancel, source, reported, faults,
                   failed_txns,
                   request, needs, poll>>

\* get_page_with_semaphore: "async with semaphore" is entered, by the tasks
\* in the order they were created and only while the value is positive, and
\* get_companies_page(p) is issued
Acquire(p) ==
    /\ pages.task[p] = "created"
    /\ \A q \in 1..(p - 1) : pages.task[q] # "created"
    /\ pages.value > 0
    /\ pages' = [pages EXCEPT !.task[p] = "fetching",
                              !.value = @ - 1,
                              !.requests[p] = @ + 1]
    /\ UNCHANGED <<states, sync_state, sync_logs, companies, committed,
                   in_txn, call, task, cancel, source, reported, faults,
                   failed_txns,
                   request, needs, poll>>

\* get_page_with_semaphore: the fetch of page p returns its rows and the
\* semaphore is released; when it was the last one, gather returns and
\* get_all_companies returns the flattened list
PageReturns(p) ==
    /\ pages.task[p] = "fetching"
    /\ \E rows \in PageRows(p) :
          LET q == [pages EXCEPT !.task[p] = "done",
                                 !.rows[p] = rows,
                                 !.value = @ + 1,
                                 !.completed = Append(@, p)]
          IN  pages' =
                 IF /\ q.pc = "gather"
                    /\ \A r \in 1..q.total_pages : q.task[r] = "done"
                 THEN [q EXCEPT !.pc = "returned", !.result = all_companies(q)]
                 ELSE q
    /\ UNCHANGED <<states, sync_state, sync_logs, companies, committed,
                   in_txn, call, task, cancel, source, reported, faults,
                   failed_txns,
                   request, needs, poll>>

\* get_page_with_semaphore: the fetch of page p raises and the semaphore is
\* released; gather passes the first exception on, get_all_companies raises
\* it, and the other tasks go on
PageRaises(p) ==
    /\ pages.task[p] = "fetching"
    /\ pages' = [pages EXCEPT !.task[p] = "failed",
                              !.value = @ + 1,
                              !.pc = IF @ = "gather" THEN "raised" ELSE @]
    /\ UNCHANGED <<states, sync_state, sync_logs, companies, committed,
                   in_txn, call, task, cancel, source, reported, faults,
                   failed_txns,
                   request, needs, poll>>

PagesNext ==
    \/ FirstPage
    \/ \E p \in 1..MaxPages : Acquire(p)
    \/ \E p \in 1..MaxPages : PageReturns(p)
    \/ \E p \in 1..MaxPages : PageRaises(p)

PagesSpec == PagesInit /\ [][PagesNext]_vars

\* ------------------------------- GET /sync/progress and GET /sync/status

\* SyncState.get_percentage: (processed_records / total_records) * 100, of
\* which the integer part is kept
get_percentage(state) ==
    IF state.total_records = 0
    THEN 0
    ELSE (state.processed_records * 100) \div state.total_records

\* get_sync_progress without the test of is_running: the counters of the
\* state object are returned as they are
get_sync_progress_Stale(state) ==
    Snapshot(state.is_running, state.current_page, state.total_pages,
             state.processed_records, state.total_records,
             get_percentage(state))

\* SyncService.get_sync_progress
get_sync_progress(state) ==
    IF ~state.is_running
    THEN Snapshot(FALSE, 0, 0, 0, 0, 0)
    ELSE Snapshot(TRUE, state.current_page, state.total_pages,
                  state.processed_records, state.total_records,
                  get_percentage(state))

\* get_sync_status with ORDER BY id ASC
get_sync_status_Oldest(logs) ==
    IF DOMAIN logs = {}
    THEN EmptyDict
    ELSE LET id == CHOOSE i \in DOMAIN logs : \A j \in DOMAIN logs : i <= j
         IN  Dict(id, logs[id])

\* SyncService.get_sync_status: SELECT ... ORDER BY id DESC LIMIT 1
get_sync_status(logs) ==
    IF DOMAIN logs = {}
    THEN EmptyDict
    ELSE LET id == CHOOSE i \in DOMAIN logs : \A j \in DOMAIN logs : j <= i
         IN  Dict(id, logs[id])

\* SyncStatusResponse(**status) validates: the counts are integers >= 0
\* (None is not), duration_ms is None or >= 0
SyncStatusResponse(status) ==
    /\ status.row.total_records # NULL /\ status.row.total_records >= 0
    /\ status.row.success_records # NULL /\ status.row.success_records >= 0
    /\ status.row.failed_records # NULL /\ status.row.failed_records >= 0
    /\ status.row.duration_ms = NULL \/ status.row.duration_ms >= 0

\* the progress route answering 404 when no sync is running
GetSyncProgress_NotFoundWhenIdle ==
    /\ poll.pc = "idle"
    /\ poll' = IF get_sync_state.is_running
               THEN [poll EXCEPT !.pc = "progress", !.status_code = 200,
                                 !.progress = get_sync_progress(get_sync_state)]
               ELSE [poll EXCEPT !.pc = "progress", !.status_code = 404]
    /\ UNCHANGED <<states, sync_state, sync_logs, companies, committed,
                   in_txn, call, task, cancel, source, reported, faults,
                   failed_txns,
                   request, needs, pages>>

\* routes/sync.py get_sync_progress -> SyncService.get_sync_progress: nothing
\* in it suspends; the snapshot is answered with 200 running or not
GetSyncProgress ==
    /\ poll.pc = "idle"
    /\ poll' = [poll EXCEPT !.pc = "progress", !.status_code = 200,
                            !.progress = get_sync_progress(get_sync_state)]
    /\ UNCHANGED <<states, sync_state, sync_logs, companies, committed,
                   in_txn, call, task, cancel, source, reported, faults,
                   failed_txns,
                   request, needs, pages>>

\* routes/sync.py get_sync_status -> SyncService.get_sync_status: the SELECT
\* has run on the connection; no row answers 404, a row the response model
\* rejects, or a statement that raised, answers 500
GetSyncStatus ==
    /\ poll.pc = "idle"
    /\ \/ /\ LET status == get_sync_status(sync_logs) IN
             poll' = [poll EXCEPT
                 !.pc = "status",
                 !.status = status,
                 !.status_code = IF status = EmptyDict THEN 404
                                 ELSE IF SyncStatusResponse(status) THEN 200
                                 ELSE 500]
          /\ UNCHANGED faults
       \/ /\ faults < MaxFaults
          /\ faults' = faults + 1
          /\ poll' = [poll EXCEPT !.pc = "raised", !.status_code = 500]
    /\ UNCHANGED <<states, sync_state, sync_logs, companies, committed,
                   in_txn, call, task, cancel, source, reported, failed_txns,
                   request, needs, pages>>

PollNext == GetSyncProgress \/ GetSyncStatus

\* the orchestrator over a store of one row and a source of two batches (an
\* update, an insert and a record that fails to transform), with an observer
\* that makes one GET request at any moment
PollInit ==
    /\ Constructed
    /\ companies = [i \in Ids |-> IF i = 1 THEN Row(1, <<0, 0, "ins">>) ELSE NoRow]
    /\ committed = companies
    /\ source = <<ExternalCompany(1, 2, TRUE), ExternalCompany(2, NULL, TRUE),
                  ExternalCompany(2, 1, FALSE)>>
    /\ reported = Len(source)
    /\ request = IdleRequest
    /\ needs = IdleNeeds
    /\ pages = IdlePages
    /\ poll = IdlePoll

PollSpec == PollInit /\ [][Next \/ PollNext]_vars

\* the orchestrator over the same store and source, the source reporting a
\* total that is the number of its records or differs from it
ProgressInit ==
    /\ Constructed
    /\ companies = [i \in Ids |-> IF i = 1 THEN Row(1, <<0, 0, "ins">>) ELSE NoRow]
    /\ committed = companies
    /\ source = <<ExternalCompany(1, 2, TRUE), ExternalCompany(2, NULL, TRUE),
                  ExternalCompany(2, 1, FALSE)>>
    /\ reported \in (Len(source) - MaxSkew)..(Len(source) + MaxSkew)
    /\ request = IdleRequest
    /\ needs = IdleNeeds
    /\ pages = IdlePages
    /\ poll = IdlePoll

ProgressSpec == ProgressInit /\ [][Next]_vars

\* ------------------------------------------------------------- properties

\* the sync-log row of the run that request c started
RowOf(c) == sync_logs[call[c].id]

Accepted(c) == call[c].pc = "202"

RowStatus(c) ==
    IF call[c].id \in DOMAIN sync_logs THEN RowOf(c).status ELSE "none"

\* C1: single-flight - at no reachable state are two accepted runs active
\* (accepted, their sync-log row still running) at once.
C1_SingleFlight ==
    Cardinality({c \in Calls : Accepted(c) /\ RowOf(c).status = "running"}) <= 1

\* C2: sync-log lifecycle - once a row holds a terminal status no later step
\* changes that row's status.
C2_TerminalIsFinal ==
    [][\A id \in DOMAIN sync_logs :
          sync_logs[id].status \in Terminal
              => sync_logs'[id].status = sync_logs[id].status]_vars

\* perform_sync of task c returns or raises in this step
PerformSyncEnds(c) ==
    /\ task[c].pc \in {"done_update", "fail_update"}
    /\ task'[c].pc \in {"finished", "bg_update"}

\* C3: guaranteed cleanup - whenever perform_sync terminates, by return or
\* by exception, the global running flag is false afterwards.
C3_FlagClearedWhenPerformSyncEnds ==
    [][\A c \in Calls : PerformSyncEnds(c) => ~get_sync_state'.is_running]_vars

\* C4: liveness of an accepted run - after a run is accepted the system
\* eventually reaches a state where the running flag is false and the run's
\* sync-log row is terminal.  Stated for the behaviours in which no database
\* statement raises, which the claim includes.
C4_AcceptedRunEnds ==
    \A c \in Calls :
        Accepted(c) ~> \/ /\ ~get_sync_state.is_running
                          /\ RowStatus(c) \in Terminal
                       \/ faults > 0

\* C5: start_sync called while the running flag is true is rejected (409)
\* and changes nothing: no sync-log row, no background task, the progress
\* state as it was.
C5_RejectedStartChangesNothing ==
    [][\A c \in Calls :
          (call[c].pc = "idle" /\ call'[c].pc # "idle"
                               /\ get_sync_state.is_running)
              => /\ call'[c].pc = "409"
                 /\ sync_logs' = sync_logs
                 /\ states' = states
                 /\ sync_state' = sync_state
                 /\ task' = task]_vars

C5_Witness == \E c \in Calls : call[c].pc = "409"

\* C6: an accepted start_sync inserts exactly one sync-log row, running with
\* zero counts, leaves the other rows alone, installs a progress state that
\* is running, names that row and has zero counters, and returns the row's
\* id, which no earlier run has.
C6_AcceptedStart ==
    [][\A c \in Calls :
          (~Accepted(c) /\ Accepted(c)')
              => LET id == call'[c].id IN
                 /\ DOMAIN sync_logs' = DOMAIN sync_logs \cup {id}
                 /\ id \notin DOMAIN sync_logs
                 /\ \A j \in DOMAIN sync_logs : sync_logs'[j] = sync_logs[j]
                 /\ sync_logs'[id].status = "running"
                 /\ sync_logs'[id].total_records = 0
                 /\ sync_logs'[id].success_records = 0
                 /\ sync_logs'[id].failed_records = 0
                 /\ get_sync_state' =
                        [is_running |-> TRUE, current_sync_id |-> id,
                         current_page |-> 0, total_pages |-> 0,
                         processed_records |-> 0, total_records |-> 0]
                 /\ \A b \in Calls : call[b].id # id]_vars

C6_Witness ==
    \E b, c \in Calls : b # c /\ Accepted(b) /\ Accepted(c)

\* C7: after cancel_sync has returned true, and until a new run is created,
\* the latest sync-log row is the cancelled run's, it reads cancelled with
\* end_time set, and the running flag is false.
C7_CancelledStays ==
    \A k \in Cancels :
        (cancel[k].pc = "200" /\ Len(sync_logs) = cancel[k].id)
            => /\ sync_logs[cancel[k].id].status = "cancelled"
               /\ sync_logs[cancel[k].id].end_time # NULL
               /\ ~get_sync_state.is_running

\* C8: cancel_sync called while the running flag is false answers 404,
\* writes no sync-log row and leaves the progress state unchanged.
C8_CancelNotRunningIsNoOp ==
    [][\A k \in Cancels :
          (cancel[k].pc = "idle" /\ cancel'[k].pc # "idle"
                                 /\ ~get_sync_state.is_running)
              => /\ cancel'[k].pc = "404"
                 /\ sync_logs' = sync_logs
                 /\ states' = states
                 /\ sync_state' = sync_state]_vars

C8_Witness == \E k \in Cancels : cancel[k].pc = "404"

\* C9: batch atomicity - no committed row of the store was written by a
\* batch transaction that failed.
C9_BatchAtomic ==
    \A id \in Ids :
        committed[id].present => committed[id].last_sync_at \notin failed_txns

\* the batch transaction task c was in when it failed, if any
FailedBatch(c) == {kind \in {"insert", "update"} :
                      <<c, task[c].i, kind>> \in failed_txns}

\* C10: when a batch transaction fails and its error reaches the handlers,
\* the run ends with a failed row that carries the error and counts every
\* record of that batch as failed, and no later batch has been written.
C10_FailedBatchCounted ==
    \A c \in Calls :
        (task[c].pc = "finished" /\ task[c].e \in FailedBatch(c))
            => /\ RowOf(c).status = "failed"
               /\ RowOf(c).error_message = task[c].e
               /\ \A id \in Ids :
                    (companies[id].present /\ companies[id].last_sync_at[1] = c)
                        => companies[id].last_sync_at[2] <= task[c].i
               /\ RowOf(c).failed_records # NULL
               /\ RowOf(c).failed_records >=
                    Min(BatchSize, Len(task[c].external_companies) - task[c].i)

\* ------------------------------------------- properties of the data path

\* perform_sync of task c has returned its result
Returned(c) == task[c].pc = "finished" /\ task[c].e = "NULL"

\* the records of a sequence that satisfy P, counted
Count(seq, P(_)) == Cardinality({j \in DOMAIN seq : P(seq[j])})

Range(seq) == {seq[j] : j \in DOMAIN seq}

\* C11: run accounting - a run that ends completed reports success_records
\* + failed_records equal to the number of source records it processed, a
\* record skipped as up to date counting as a success.
C11_RunAccounting ==
    \A c \in Calls :
        (Returned(c) /\ RowStatus(c) = "completed")
            => RowOf(c).success_records + RowOf(c).failed_records
                   = Len(task[c].external_companies)

\* the incoming record x of task c is in the existing index of the run and
\* its update timestamp is less than or equal to the existing record's
UpToDate(c, x) ==
    LET existing == task[c].existing_by_id[x.id] IN
    /\ existing.present
    /\ x.update_time # NULL
    /\ existing.update_time # NULL
    /\ x.update_time <= existing.update_time

\* the row of company id as the connection shows it was written by run c
WrittenBy(c, id) ==
    companies[id].present /\ companies[id].last_sync_at[1] = c

\* the original statement of C12: the row of a skipped record is left
\* unchanged by the run, whatever else the source holds
C12_SkippedRowUnchangedByRun ==
    \A c \in Calls : \A x \in Range(task[c].external_companies) :
        UpToDate(c, x) => ~WrittenBy(c, x.id)

\* C12: an incoming record that is in the existing index with an update
\* timestamp less than or equal to the existing one is skipped: it is in
\* neither the insert list nor the update list, and its row is left as it
\* was by the run unless the source holds another record of the same
\* identifier that is not up to date.
C12_UpToDateIsSkipped ==
    \A c \in Calls : \A x \in Range(task[c].external_companies) :
        UpToDate(c, x)
            => /\ x \notin Range(task[c].to_insert)
               /\ x \notin Range(task[c].to_update)
               /\ (\A y \in Range(task[c].external_companies) :
                        y.id = x.id => UpToDate(c, y) \/ ~y.valid)
                    => ~WrittenBy(c, x.id)

C12_Witness ==
    \E c \in Calls : \E x \in Range(task[c].external_companies) :
        Returned(c) /\ UpToDate(c, x) /\ companies[x.id].last_sync_at[1] = 0

\* task c is inside _process_batch, at or between its awaited writes
Writing(c) ==
    task[c].pc \in {"insert_begin", "insert_many", "insert_commit",
                    "update_begin", "update_exec", "update_commit"}

\* the batch task c is processing
CurrentBatch(c) ==
    SubSeq(task[c].external_companies, task[c].i + 1,
           Min(task[c].i + BatchSize, Len(task[c].external_companies)))

IsValid(x) == x.valid

Parseable(s) == s \in (0..MaxTime) \cup {TZ + t : t \in 0..MaxTime}

\* the instant a parseable string names
Instant(s) == IF s \in 0..MaxTime THEN s ELSE s - TZ

\* C14: _needs_update returns false if and only if both the existing and
\* the incoming record have a parseable update timestamp and the incoming
\* one is less than or equal to the existing one; for every other
\* combination it returns true.
C14_NeedsUpdate ==
    needs.result \notin {"idle", "called"}
        => LET not_newer == /\ Parseable(needs.existing)
                            /\ Parseable(needs.external)
                            /\ Instant(needs.external) <= Instant(needs.existing)
           IN  /\ not_newer => needs.result = "False"
               /\ ~not_newer => needs.result = "True"

\* ------------------------------- properties of the data path, continued

\* every record of the source snapshot has an update timestamp
AllStamped == \A j \in DOMAIN source : source[j].update_time # NULL

\* task c reads the existing index in this step, after run b has returned
SecondRunStarts(b, c) ==
    /\ b # c
    /\ Returned(b)
    /\ task[c].pc = "get_existing"
    /\ task'[c].pc # "get_existing"

\* C15: idempotence - when perform_sync has run to completion and runs
\* again against the same source snapshot, every record of which has an
\* update timestamp, the second run finds nothing to insert and nothing to
\* update: its batch loop ends without a write.
C15_SecondRunWritesNothing ==
    [][\A b, c \in Calls :
          (SecondRunStarts(b, c) /\ AllStamped)
              => task'[c].pc = "done_update"]_vars

IsInvalid(x) == ~x.valid

\* C16: a record whose transform fails is counted as failed exactly once,
\* never reaches a transaction, and does not keep the other records of its
\* batch from being classified, written and counted.
C16_TransformFailureIsCounted ==
    \A c \in Calls :
        /\ \A x \in Range(task[c].to_insert) \cup Range(task[c].to_update) :
              x.valid
        /\ Writing(c)
            => /\ task[c].batch_failed = Count(CurrentBatch(c), IsInvalid)
               /\ \A x \in Range(CurrentBatch(c)) :
                     (x.valid /\ ~UpToDate(c, x))
                         => x \in Range(task[c].to_insert)
                                     \cup Range(task[c].to_update)
        /\ Returned(c)
            => /\ task[c].failed_count
                      = Count(task[c].external_companies, IsInvalid)
               /\ task[c].success_count
                      = Count(task[c].external_companies,
                              LAMBDA x : x.valid /\ ~UpToDate(c, x))

C16_Witness ==
    \E c \in Calls :
        /\ Returned(c)
        /\ task[c].failed_count = 1
        /\ \E j \in DOMAIN source :
              /\ j + 1 \in DOMAIN source
              /\ (j - 1) \div BatchSize = j \div BatchSize
              /\ ~source[j].valid
              /\ source[j + 1].valid
              /\ WrittenBy(c, source[j + 1].id)

\* task c is at or past the read of the existing index, inside perform_sync
Reconciling(c) ==
    Writing(c) \/ task[c].pc \in {"get_existing", "done_update"}

\* a cancel request has read run c's sync-log id
CancelledRun(c) == \E k \in Cancels : cancel[k].id = call[c].id

Ended == request.pc \in {"returned", "raised"}

\* a network-level failure or a 5xx response
RetryableFailure(r) == r.status = 0 \/ r.status \in 500..599

\* a 2xx response whose body is JSON
Success(r) == r.status \in 200..299 /\ r.json

\* C18: when the first k attempts (k at most the configured retry count)
\* fail with a 5xx response or a request error and attempt k + 1 succeeds,
\* _request returns that response after k + 1 HTTP attempts and exactly k
\* backoff delays, the delay after attempt index a being
\* sync_retry_delay * 2^a.
C18_RetryThenSuccess ==
    \A k \in 0..request.retry_attempts :
        (/\ Ended
         /\ \A a \in 1..k : RetryableFailure(request.responses[a])
         /\ Success(request.responses[k + 1]))
            => /\ request.pc = "returned"
               /\ request.result = request.responses[k + 1]
               /\ request.requests = k + 1
               /\ Len(request.slept) = k
               /\ \A a \in 1..k :
                     request.slept[a] = request.retry_delay * 2^(a - 1)

C18_Witness ==
    /\ request.pc = "returned"
    /\ request.responses[1].status = 503
    /\ request.responses[2].status = 503
    /\ request.requests = 3
    /\ request.retry_delay = 1
    /\ request.slept = <<1, 2>>

\* C19: a 4xx response is never retried - _request raises at once, after
\* that attempt and without a backoff delay, an APIException carrying the
\* 4xx status code; no other failure of _request carries a 4xx status code.
C19_ClientErrorNotRetried ==
    /\ \A a \in DOMAIN request.responses :
          (/\ Ended
           /\ request.responses[a].status \in 400..499
           /\ \A b \in 1..(a - 1) : RetryableFailure(request.responses[b]))
              => /\ request.pc = "raised"
                 /\ request.exception = APIException(request.responses[a].status)
                 /\ request.requests = a
                 /\ Len(request.slept) = a - 1
    /\ (request.pc = "raised" /\ request.exception.status_code \in 400..499)
          => request.responses[request.requests].status
                 = request.exception.status_code

C19_Witness ==
    /\ request.pc = "raised"
    /\ request.retry_attempts >= 2
    /\ request.responses[1].status = 500
    /\ request.responses[2].status = 400
    /\ request.exception.status_code = 400
    /\ request.requests = 2

\* the status an APIException built from the failure r carries
StatusOf(r) == IF r.status = 0 THEN NULL ELSE r.status

\* C20: retry is bounded - _request never makes more than
\* sync_retry_attempts + 1 HTTP attempts nor more than sync_retry_attempts
\* backoff delays and is never stuck before it ends; when every attempt
\* fails with a retryable error it ends, after exactly that many attempts
\* and delays (none after the last attempt), raising an APIException built
\* from the last failure.
C20_RetryIsBounded ==
    /\ request.requests <= request.retry_attempts + 1
    /\ Len(request.slept) <= request.retry_attempts
    /\ Ended \/ ENABLED RequestNext
    /\ (Ended /\ \A a \in DOMAIN request.responses :
                    RetryableFailure(request.responses[a]))
          => /\ request.pc = "raised"
             /\ request.requests = request.retry_attempts + 1
             /\ Len(request.slept) = request.retry_attempts
             /\ request.exception =
                    APIException(StatusOf(request.responses[request.requests]))

C20_Witness ==
    /\ request.pc = "raised"
    /\ request.retry_attempts = 3
    /\ \A a \in DOMAIN request.responses :
          RetryableFailure(request.responses[a])
    /\ request.responses[4].status = 503
    /\ request.requests = 4
    /\ Len(request.slept) = 3

\* ---------------------------------------- properties of get_all_companies

\* C21: for every completion order of the concurrent page fetches,
\* get_all_companies returns the records in ascending page number, all
\* records of page p before all records of page p + 1, and the records of
\* each page in the order its fetch received them.
C21_PageOrder ==
    pages.pc = "returned"
        => /\ \A i, j \in DOMAIN pages.result :
                 i < j => pages.result[i][1] <= pages.result[j][1]
           /\ \A i \in DOMAIN pages.result :
                 pages.result[i][1] \in 1..pages.total_pages
           /\ \A p \in 1..pages.total_pages :
                 SelectSeq(pages.result, LAMBDA r : r[1] = p) = pages.rows[p]

C21_Witness ==
    /\ pages.pc = "returned"
    /\ pages.total_pages = 3
    /\ pages.completed = <<3, 2, 1>>
    /\ pages.result = << <<1, 2>>, <<1, 1>>, <<2, 1>>, <<3, 2>>, <<3, 1>> >>

\* the page fetches issued and not yet answered
InFlight ==
    Cardinality({p \in 1..MaxPages : pages.task[p] = "fetching"})
        + (IF pages.pc = "get_total_pages" THEN 1 ELSE 0)

\* C22: during get_all_companies the number of page fetches in flight never
\* exceeds external_api_max_concurrent, for every number of pages and every
\* interleaving of fetch completions.
C22_InFlightBounded ==
    /\ InFlight <= pages.max_concurrent
    /\ pages.pc # "idle" => pages.value >= 0

C22_Witness ==
    /\ pages.total_pages > pages.max_concurrent
    /\ InFlight = pages.max_concurrent
    /\ pages.completed # <<>>
    /\ \E p \in 1..MaxPages : pages.task[p] = "created"

\* ------------------------------------------ properties of the GET routes

\* the observer's request is answered by get_sync_progress in this step
ProgressAnswered == poll.pc = "idle" /\ poll'.pc = "progress"

\* C23: get_sync_progress never changes any state; whenever the running
\* flag is false it returns the zeroed snapshot (is_running false, the four
\* counters 0, percentage 0) whatever counters the state object holds, and
\* whenever the flag is true it returns the state's current counters.
C23_ProgressSnapshot ==
    [][ProgressAnswered
          => /\ UNCHANGED <<states, sync_state, sync_logs, companies,
                            committed, in_txn, call, task, cancel, source,
                            faults, failed_txns>>
             /\ ~get_sync_state.is_running
                   => /\ ~poll'.progress.is_running
                      /\ poll'.progress.current_page = 0
                      /\ poll'.progress.total_pages = 0
                      /\ poll'.progress.processed_records = 0
                      /\ poll'.progress.total_records = 0
                      /\ poll'.progress.percentage = 0
             /\ get_sync_state.is_running
                   => /\ poll'.progress.is_running
                      /\ poll'.progress.current_page
                            = get_sync_state.current_page
                      /\ poll'.progress.total_pages
                            = get_sync_state.total_pages
                      /\ poll'.progress.processed_records
                            = get_sync_state.processed_records
                      /\ poll'.progress.total_records
                            = get_sync_state.total_records]_vars

C23_Witness ==
    /\ poll.pc = "progress"
    /\ ~poll.progress.is_running
    /\ poll.progress.processed_records = 0
    /\ ~get_sync_state.is_running
    /\ get_sync_state.processed_records > 0
    /\ \A c \in Calls : task[c].pc \in {"none", "finished"}

\* the observer's request is answered by get_sync_status in this step
StatusAnswered == poll.pc = "idle" /\ poll'.pc = "status"

\* the identifiers of the sync-log rows created so far
Created == {call[c].id : c \in Calls} \ {NULL}

\* C24: get_sync_status returns the sync-log row with the greatest
\* identifier among all rows ever created, whatever the in-memory progress
\* state says, and an empty result when no row exists.
C24_StatusIsLatestRow ==
    [][StatusAnswered
          => IF Created = {}
             THEN poll'.status = EmptyDict
             ELSE /\ poll'.status.id \in Created
                  /\ \A id \in Created : id <= poll'.status.id
                  /\ poll'.status.row = sync_logs[poll'.status.id]]_vars

C24_Witness ==
    /\ poll.pc = "status"
    /\ poll.status.id = 2
    /\ Len(sync_logs) = 2
    /\ get_sync_state.current_sync_id = 1

C25_TriggerAnswersSynchronously ==
    [][\A c \in Calls :
          /\ (call[c].pc # "409" /\ call'[c].pc = "409")
                => /\ task' = task
                   /\ sync_logs' = sync_logs
                   /\ call'[c].id = NULL
          /\ (~Accepted(c) /\ Accepted(c)')
                => /\ task[c].pc = "none"
                   /\ task'[c] = [IdleTask EXCEPT !.pc = "created"]
                   /\ \A b \in Calls \ {c} : task'[b] = task[b]
                   /\ call'[c].id = Len(sync_logs')
                   /\ RowStatus(c)' = "running"
          /\ task'[c].pc # "none" => Accepted(c)']_vars

C25_Witness ==
    \E b, c \in Calls :
        /\ call[b].pc = "202" /\ task[b].pc = "created"
        /\ call[c].pc = "409" /\ task[c].pc = "none"
        /\ Len(sync_logs) = 1

\* C26: natural key - in every reachable state of the store, as the
\* connection shows it and as committed, each identifier has at most one
\* company row, also after runs whose source lists an identifier twice.
C26_NaturalKey ==
    \A id \in Ids :
        /\ companies[id].rows <= 1
        /\ committed[id].rows <= 1
        /\ companies[id].present <=> companies[id].rows = 1

C26_Witness ==
    \E c \in Calls :
        /\ source = <<ExternalCompany(1, 1, TRUE), ExternalCompany(1, 1, TRUE)>>
        /\ task[c].pc = "finished"
        /\ task[c].e = "insert"
        /\ WrittenBy(c, 1)
        /\ committed[1].rows = 1

\* the accepted runs whose sync-log row has not reached a terminal status
ActiveRuns == {c \in Calls : Accepted(c) /\ RowStatus(c) = "running"}

\* cancel_sync has returned true for run c
Cancelled(c) ==
    \E k \in Cancels : cancel[k].pc = "200" /\ cancel[k].id = call[c].id

\* C28: the progress state is written only by the single active run - the
\* running flag is true if and only if exactly one accepted run has not yet
\* reached a terminal status, current_sync_id then names that run, and a run
\* that has been cancelled never afterwards changes the global progress
\* state.
C28_SingleWriter ==
    /\ [](get_sync_state.is_running <=> Cardinality(ActiveRuns) = 1)
    /\ [](get_sync_state.is_running
            => \A c \in ActiveRuns :
                  get_sync_state.current_sync_id = call[c].id)
    /\ [][\A c \in Calls :
            (Cancelled(c) /\ task'[c] # task[c])
                => get_sync_state' = get_sync_state]_vars

\* C29: cancellation only marks state - no step of cancel_sync touches a
\* background task, and the cancelled run is not stopped: when its
\* perform_sync returns, after cancel_sync returned true, it has fetched the
\* whole source and applied every batch, so that every record that was to
\* be written is in the store and counted.
C29_CancelOnlyMarksState ==
    /\ [][cancel' # cancel => task' = task]_vars
    /\ [](\A c \in Calls :
            (Cancelled(c) /\ Returned(c))
                => /\ task[c].external_companies = source
                   /\ \A x \in Range(source) :
                         (x.valid /\ ~UpToDate(c, x)) => companies[x.id].present
                   /\ task[c].success_count
                         = Count(source, LAMBDA x : x.valid /\ ~UpToDate(c, x)))

C29_Witness ==
    \E c \in Calls :
        /\ Cancelled(c)
        /\ Returned(c)
        /\ RowOf(c).status = "completed"
        /\ WrittenBy(c, 3)
        /\ companies[3].last_sync_at[2] = BatchSize

\* task c is inside a batch transaction: its BEGIN TRANSACTION has run and
\* its commit has not
InBatchTransaction(c) ==
    task[c].pc \in {"insert_many", "insert_commit", "update_exec",
                    "update_commit"}

\* C30: at most one batch transaction is in flight process-wide - no two
\* perform_sync executions ever have a batch write open on the store at the
\* same time, for every sequence of start, cancel and start again.
C30_OneBatchTransaction ==
    Cardinality({c \in Calls : InBatchTransaction(c)}) <= 1

\* ------------------------------------------ properties of the batch loop

\* range(0, n, batch_size): the offsets of the batches of n records
Offsets(n) == {i \in 0..(n - 1) : i % BatchSize = 0}

\* external_companies[i:i + batch_size] of task record t
Slice(t, i) ==
    SubSeq(t.external_companies, i + 1,
           Min(i + BatchSize, Len(t.external_companies)))

\* _process_batch on the batch at offset i of task record t finds no insert
\* and no update: it returns without a transaction
NothingToWrite(t, i) ==
    LET cl == Classify(Slice(t, i), t.existing_by_id)
    IN  cl.to_insert = <<>> /\ cl.to_update = <<>>

\* C31: within one run the batches are processed strictly in order - the
\* loop moves to another batch only when the insert and the update
\* transaction of the current one have finished, it only moves forward, the
\* batches it passes without suspending are those with nothing to write, the
\* lists being written hold records of the current slice only, no row of a
\* later slice is in the store, and the loop ends only past the last slice.
C31_BatchesInOrder ==
    /\ [](\A c \in Calls :
            /\ Writing(c)
                => /\ task[c].i \in Offsets(Len(task[c].external_companies))
                   /\ Range(task[c].to_insert) \cup Range(task[c].to_update)
                         \subseteq Range(CurrentBatch(c))
            /\ task[c].pc = "done_update"
                => task[c].i + BatchSize >= Len(task[c].external_companies)
            /\ \A id \in Ids :
                  WrittenBy(c, id) => companies[id].last_sync_at[2] <= task[c].i)
    /\ [][\A c \in Calls :
            /\ task'[c].i # task[c].i
                => /\ \/ task[c].pc = "get_existing"
                      \/ task[c].pc = "insert_commit" /\ task[c].to_update = <<>>
                      \/ task[c].pc = "update_commit"
                   /\ task[c].pc = "get_existing" \/ task'[c].i > task[c].i
                   /\ \A j \in Offsets(Len(task'[c].external_companies)) :
                         ( \/ j < task'[c].i /\ task[c].pc = "get_existing"
                           \/ task[c].i < j /\ j < task'[c].i
                           \/ j = task'[c].i /\ task'[c].pc = "done_update" )
                             => NothingToWrite(task'[c], j)
            /\ (Writing(c) /\ task'[c].i = task[c].i /\ Writing(c)')
                => CurrentBatch(c)' = CurrentBatch(c)]_vars

C31_Witness ==
    \E c \in Calls :
        /\ Returned(c)
        /\ Len(task[c].external_companies) = 3
        /\ task[c].i = BatchSize
        /\ \E id \in Ids :
              WrittenBy(c, id) /\ companies[id].last_sync_at = <<c, 0, "update">>
        /\ \E id \in Ids :
              WrittenBy(c, id) /\ companies[id].last_sync_at[2] = BatchSize

\* ------------------------------ properties of get_all_companies, continued

\* C32: get_all_companies fetches page 1 once to learn the page count and
\* then only the remaining pages, so that when it returns each page of the
\* source has been requested exactly once.
C32_EachPageOnce ==
    pages.pc = "returned"
        => \A p \in 1..pages.total_pages : pages.requests[p] = 1

\* ---------------------------------- properties of the batch loop, continued

\* C33: perform_sync reads the existing-record index exactly once per run,
\* after the fetch and before the first batch, and every batch of the run is
\* classified against that one snapshot, whatever has been written to the
\* store since.
C33_OneSnapshot ==
    /\ [](\A c \in Calls :
            Writing(c)
                => LET cl == Classify(CurrentBatch(c), task[c].existing_by_id)
                   IN  /\ task[c].to_insert = cl.to_insert
                       /\ task[c].to_update = cl.to_update)
    /\ [][\A c \in Calls :
            /\ task'[c].pc = "get_existing" /\ task[c].pc # "get_existing"
                => /\ task[c].pc = "get_all_companies"
                   /\ task'[c].external_companies = source
                   /\ task'[c].existing_by_id = IdleTask.existing_by_id
            /\ task'[c].existing_by_id # task[c].existing_by_id
                => /\ task[c].pc = "get_existing"
                   /\ task'[c].existing_by_id = companies]_vars

C33_Witness ==
    \E c \in Calls : \E x \in Range(task[c].to_insert) :
        /\ task[c].pc = "insert_many"
        /\ task[c].i = BatchSize
        /\ ~task[c].existing_by_id[x.id].present
        /\ WrittenBy(c, x.id)
        /\ companies[x.id].last_sync_at[2] = 0

\* C34: progress is updated after every batch - whenever an observer reads
\* the progress of a run that is between the awaited writes of a batch, the
\* processed count it gets is the number of records of the batches whose
\* reconciliation has completed, which is the offset of the current batch.
C34_ProgressAfterBatch ==
    \A c \in Calls :
        (Writing(c) /\ sync_state = task[c].state /\ get_sync_state.is_running)
            => get_sync_progress(get_sync_state).processed_records = task[c].i

\* -------------------------------------- properties of the sync-log rows

\* C35: in every reachable state the total_records, success_records and
\* failed_records of every sync-log row are integers >= 0 and never null,
\* also after a cancelled or failed terminal write, so that the status
\* response model built from the latest row validates.
C35_CountsNeverNull ==
    /\ \A id \in DOMAIN sync_logs :
          /\ sync_logs[id].total_records # NULL
          /\ sync_logs[id].total_records >= 0
          /\ sync_logs[id].success_records # NULL
          /\ sync_logs[id].success_records >= 0
          /\ sync_logs[id].failed_records # NULL
          /\ sync_logs[id].failed_records >= 0
    /\ sync_logs # <<>> => SyncStatusResponse(get_sync_status(sync_logs))

\* C36: log and flag agree - in every reachable state in which the running
\* flag is false and no start_sync call is in progress, no sync-log row has
\* status running.
C36_LogAndFlagAgree ==
    (/\ ~get_sync_state.is_running
     /\ \A c \in Calls : call[c].pc # "create_sync_log")
        => \A id \in DOMAIN sync_logs : sync_logs[id].status # "running"

\* ------------------------------ properties of the orchestrator, continued

\* C37: if the sync-log insert in start_sync fails, start_sync raises (the
\* route answers 500) with no row written, no task created and the progress
\* state, its running flag included, unchanged; a start that arrives when
\* every earlier one has failed that way is not rejected, and as long as no
\* start has been accepted the flag is false.
C37_FailedInsertLeavesNoTrace ==
    /\ [](\A c \in Calls : call[c].pc = "500" => call[c].id = NULL)
    /\ []((\A c \in Calls : ~Accepted(c)) => ~get_sync_state.is_running)
    /\ [][\A c \in Calls :
            /\ (call[c].pc # "500" /\ call'[c].pc = "500")
                => /\ call[c].pc = "create_sync_log"
                   /\ states' = states
                   /\ sync_state' = sync_state
                   /\ sync_logs' = sync_logs
                   /\ task' = task
            /\ (/\ call[c].pc = "idle" /\ call'[c].pc # "idle"
                /\ \A b \in Calls \ {c} : call[b].pc \in {"idle", "500"})
                => call'[c].pc = "create_sync_log"]_vars

C37_Witness ==
    /\ call[1].pc = "500"
    /\ call[2].pc = "202"
    /\ Len(sync_logs) = 1
    /\ get_sync_state.is_running
    /\ get_sync_state.current_sync_id = 1

\* ------------------------------------- properties of the progress state

\* task c is inside perform_sync
Performing(c) == task[c].pc \notin {"none", "created", "bg_update", "finished"}

\* C38: progress bounds - in every state of a run the progress state it
\* writes has current_page <= total_pages and 0 <= processed_records <=
\* total_records, so that the percentage is within 0..100, and no step
\* makes processed_records smaller, also when the source reports a total
\* that is not the number of records fetched.
C38_ProgressBounds ==
    /\ [](\A c \in Calls :
            Performing(c)
                => LET state == states[task[c].state] IN
                   /\ state.current_page <= state.total_pages
                   /\ 0 <= state.processed_records
                   /\ state.processed_records <= state.total_records
                   /\ get_percentage(state) \in 0..100)
    /\ [][\A c \in Calls :
            (Performing(c) /\ Performing(c)')
                => states'[task[c].state].processed_records
                      >= states[task[c].state].processed_records]_vars

\* ------------------------------------ properties of _request, continued

\* a 2xx response whose body is not JSON
BadJson(r) == r.status \in 200..299 /\ ~r.json

\* C39: a 2xx response whose body cannot be parsed as JSON is not retried -
\* _request raises an APIException (without a status code) right after the
\* attempt that received it, with no backoff delay after it and no further
\* HTTP attempt.
C39_BadJsonNotRetried ==
    /\ \A a \in DOMAIN request.responses :
          (/\ request.requests >= a
           /\ BadJson(request.responses[a]))
              => /\ request.pc = "raised"
                 /\ request.exception = APIException(NULL)
                 /\ request.requests = a
                 /\ Len(request.slept) = a - 1
    /\ request.pc = "sleep"
          => ~BadJson(request.responses[request.requests])

C39_Witness ==
    /\ request.pc = "raised"
    /\ request.retry_attempts = 2
    /\ request.responses[1] = Response(503, TRUE)
    /\ request.responses[2] = Response(200, FALSE)
    /\ request.requests = 2
    /\ request.slept = <<request.retry_delay>>

\* ------------------------------ properties of the connection, continued

\* C40: no commit issued by another operation on the shared connection while
\* an update batch is in flight makes a proper subset of that batch durable -
\* as long as a run is between the UPDATE statements of a batch, no row
\* written by that batch is in the committed store.
C40_NoPartialBatchDurable ==
    \A c \in Calls :
        task[c].pc = "update_exec"
            => \A id \in Ids :
                  committed[id].present
                      => committed[id].last_sync_at # Stamp(c, "update")

====
